---- MODULE Spec2Model ----
(***************************************************************************)
(* One run of a histogram script of the repository, from its __main__      *)
(* block to its end:                                                       *)
(*   src/temperature_histograms/main.py   (variant "temperature")          *)
(*   src/GISS_histograms/main.py          (variant "GISS")                 *)
(* download_input() is the same text in both files.                        *)
(*                                                                         *)
(* Conventions of the model                                                *)
(*  - strings the code takes apart or compares (paths, date tokens, file   *)
(*    names) are sequences of their parts: a path is the sequence of its   *)
(*    '/'-separated components, a token or a file name the sequence of its *)
(*    characters;                                                          *)
(*  - temperatures are integers in tenths of a degree (-2.5 is -25), bin   *)
(*    edges are kept multiplied by n_bins, so that the n_bins+1 evenly     *)
(*    spaced edges of numpy's histogram are exact integers;                *)
(*  - the working directory holds a readable earth.jpg and ./pngs holds    *)
(*    regular files only (the scripts themselves only ever put frames      *)
(*    there); the plotting calls that only draw are not modelled.          *)
(***************************************************************************)
EXTENDS Integers, Sequences, FiniteSets

VARIABLES
    variant,          \* which script runs
    pc,               \* position of the run
    fault,            \* the call that raised, once pc = "crashed"
    start, end,       \* make_plots' start / end tokens (characters)
    ds_size,          \* ds.coords['time'].size of the dataset file
    dirs, files,      \* directories / regular files below the working dir
    requests,         \* HTTP GETs issued so far
    calls,            \* log of the download_input() calls of the run
    fn,               \* the path handed to xr.open_dataset
    pngs_exists,      \* os.path.exists('./pngs')
    pngs,             \* names of the files in ./pngs
    num_cold_points, num_hot_points,
    start_idx, end_idx,
    t,                \* loop variable of the frame loop
    data,             \* the frame's values, NaN dropped
    patches,          \* the cold / hot boxes added to the frame's figure
    frames,           \* frames saved by this run, in order
    gif_invoked,      \* os.system(convert ...) was called
    gif_input         \* the files its '*png' glob matched

vars == <<variant, pc, fault, start, end, ds_size, dirs, files, requests,
          calls, fn, pngs_exists, pngs, num_cold_points, num_hot_points,
          start_idx, end_idx, t, data, patches, frames, gif_invoked,
          gif_input>>

\* ------------------------------------------------------------------ bounds
\* longest time dimension of a dataset
MaxTime == 3
\* most grid cells of one time slice
MaxPoints == 1
\* tokens of the date-resolution specification span 1850 +- YearSpan
YearSpan == 2

\* --------------------------------------------------------------- characters
DigitChars == <<"0", "1", "2", "3", "4", "5", "6", "7", "8", "9">>

DigitSet == {DigitChars[i] : i \in 1..10}

DigitVal(c) == (CHOOSE i \in 1..10 : DigitChars[i] = c) - 1

\* the characters the model meets, in code point order
Alphabet == <<"-", ".">> \o DigitChars \o
            <<"_", "a", "d", "e", "g", "l", "n", "o", "p", "r", "s", "t">>

Ord(c) == CHOOSE i \in 1..Len(Alphabet) : Alphabet[i] = c

\* Python's str < str
RECURSIVE LexLess(_, _)
LexLess(a, b) ==
    IF b = <<>> THEN FALSE
    ELSE IF a = <<>> THEN TRUE
    ELSE IF a[1] # b[1] THEN Ord(a[1]) < Ord(b[1])
    ELSE LexLess(Tail(a), Tail(b))

Abs(n) == IF n < 0 THEN -n ELSE n

Max(a, b) == IF a > b THEN a ELSE b

\* decimal digits of n >= 0
RECURSIVE Digits(_)
Digits(n) == IF n < 10 THEN <<DigitChars[n + 1]>>
             ELSE Digits(n \div 10) \o <<DigitChars[(n % 10) + 1]>>

RECURSIVE ToInt(_)
ToInt(s) == IF s = <<>> THEN 0
            ELSE 10 * ToInt(SubSeq(s, 1, Len(s) - 1)) + DigitVal(s[Len(s)])

Zeros(k) == [i \in 1..Max(k, 0) |-> "0"]

\* '{0:0Wd}'.format(n): the sign first, then zeros up to width w
FormatD(n, w) ==
    LET sign == IF n < 0 THEN <<"-">> ELSE <<>>
        digs == Digits(Abs(n))
    IN  sign \o Zeros(w - Len(sign) - Len(digs)) \o digs

\* ------------------------------------------------------------------- paths
None == <<>>

url == <<"http:", "", "berkeleyearth.lbl.gov", "auto", "Global", "Gridded",
         "Land_and_Ocean_LatLong1.nc">>

savedir == <<".", "data">>

\* '{}/{}'.format(a, b)
Format(a, b) == a \o b

\* savedir + '/' + url.split('/')[-1]
fn_path == Format(savedir, <<url[Len(url)]>>)

\* the file a relative path names: "." components dropped
Resolve(p) == SelectSeq(p, LAMBDA c : c # ".")

isfile(p) == Resolve(p) \in files

Parent(p) == SubSeq(p, 1, Len(p) - 1)

\* open(p, 'wb') finds the directory to create the file in
CanOpen(p) ==
    /\ Resolve(p) \notin dirs
    /\ Parent(Resolve(p)) = <<>> \/ Parent(Resolve(p)) \in dirs

\* ------------------------------------------------------------------- dates
\* datetime(1850, 1, 1); every date of the run is the first of a month
d0 == [year |-> 1850, month |-> 1]

START == <<"s", "t", "a", "r", "t">>

ENDTOK == <<"e", "n", "d">>

\* the token strftime('%Y%m') gives for a month: the inputs are built with it
MkToken(y, m) == FormatD(y, 4) \o FormatD(m, 2)

StrpFail == [ok |-> FALSE, year |-> 0, month |-> 0]

\* datetime.strptime(tok, '%Y%m'): four digits of year, then a month
\* 1[0-2] | 0[1-9] | [1-9] that must use up the token; year 0 is no datetime
strptime(tok) ==
    IF Len(tok) \notin {5, 6} \/ \E i \in 1..Len(tok) : tok[i] \notin DigitSet
    THEN StrpFail
    ELSE LET y == ToInt(SubSeq(tok, 1, 4))
             m == ToInt(SubSeq(tok, 5, Len(tok)))
         IN  IF y < 1 \/ m < 1 \/ m > 12 THEN StrpFail
             ELSE [ok |-> TRUE, year |-> y, month |-> m]

\* set_months without the sign
set_months_unsigned(months) ==
    IF Abs(months) > 11
    THEN [years |-> Abs(months) \div 12, months |-> Abs(months) % 12]
    ELSE [years |-> 0, months |-> months]

\* relativedelta._fix on a month count: years and months carry its sign
set_months(months) ==
    IF Abs(months) > 11
    THEN LET s == IF months < 0 THEN -1 ELSE 1
         IN  [years |-> s * ((months * s) \div 12),
              months |-> s * ((months * s) % 12)]
    ELSE [years |-> 0, months |-> months]

\* relativedelta(dt1, dt2) of two first-of-month dates
relativedelta(dt1, dt2) ==
    set_months((dt1.year - dt2.year) * 12 + (dt1.month - dt2.month))

\* dt + relativedelta(months=n)
AddMonths(dt, n) ==
    LET rd == set_months(n)
        year == dt.year + rd.years
        month == dt.month + rd.months
    IN  IF month > 12 THEN [year |-> year + 1, month |-> month - 12]
        ELSE IF month < 1 THEN [year |-> year - 1, month |-> month + 12]
        ELSE [year |-> year, month |-> month]

\* 12 * relativedelta(d, d0).years + relativedelta(d, d0).months
MonthIndex(d) == 12 * relativedelta(d, d0).years + relativedelta(d, d0).months

\* StartDate taking either sentinel for the first month
StartDate_anySentinel(tok) ==
    IF tok \in {START, ENDTOK}
    THEN [ok |-> TRUE, year |-> d0.year, month |-> d0.month]
    ELSE strptime(tok)

\* lines 79-82: the start token
StartDate(tok) ==
    IF tok = START THEN [ok |-> TRUE, year |-> d0.year, month |-> d0.month]
    ELSE strptime(tok)

\* lines 83-86: the end token
EndDate(tok, size) ==
    IF tok = ENDTOK
    THEN LET e == AddMonths(d0, size)
         IN  [ok |-> TRUE, year |-> e.year, month |-> e.month]
    ELSE strptime(tok)

\* ------------------------------------------------------------ frame files
out_dir == <<".", "pngs">>

\* 'plot_{0:07d}.png'.format(t)
out_name(i) == <<"p", "l", "o", "t", "_">> \o FormatD(i, 7)
               \o <<".", "p", "n", "g">>

\* what the shell's {out_dir}/*png matches
Glob(names) ==
    {n \in names : Len(n) >= 3 /\ SubSeq(n, Len(n) - 2, Len(n)) = <<"p", "n", "g">>}

\* the animated_gif argument of the call in __main__
animated_gif == <<"histogram.gif">>

\* a range that takes its stop in
InRange_inclusive(i, stop) == i <= stop

\* range(start_idx, end_idx) has t in it
InRange(i, stop) == i < stop

\* ds['temperature'][t, :, :] finds a slice: negative t counts from the end
ValidIndex(i, size) == -size <= i /\ i < size

\* --------------------------------------------------------------- histogram
n_bins == 400

left_line == -25

right_line == 25

Values == {-50, -25, 25, 50}

Cells == {[nan |-> TRUE, v |-> 0]} \cup {[nan |-> FALSE, v |-> x] : x \in Values}

\* the flattened grids a time slice may hold
Grids == UNION {[1..n -> Cells] : n \in 1..MaxPoints}

\* data[~np.isnan(data)]
DropNaN(raw) ==
    LET kept == SelectSeq(raw, LAMBDA c : ~c.nan)
    IN  [i \in 1..Len(kept) |-> kept[i].v]

SeqMin(d) == CHOOSE x \in {d[i] : i \in 1..Len(d)} : \A j \in 1..Len(d) : x <= d[j]

SeqMax(d) == CHOOSE x \in {d[i] : i \in 1..Len(d)} : \A j \in 1..Len(d) : x >= d[j]

\* numpy's range of the histogram: (0, 1) for no data, half a degree to each
\* side when all values are equal
HistRange(d) ==
    IF d = <<>> THEN [lo |-> 0, hi |-> 10]
    ELSE IF SeqMin(d) = SeqMax(d) THEN [lo |-> SeqMin(d) - 5, hi |-> SeqMax(d) + 5]
    ELSE [lo |-> SeqMin(d), hi |-> SeqMax(d)]

\* n_bins * bins[i], i in 0..n_bins, of the histogram over range r
Edge(r, i) == n_bins * r.lo + i * (r.hi - r.lo)

\* line 121
ColdTagged(r, i) == Edge(r, i) < n_bins * left_line

\* line 130
HotTagged(r, i) == Edge(r, i + 1) >= n_bins * right_line

\* lines 119-126
ColdBox(r, i) ==
    [kind |-> "cold", index |-> i, x |-> Edge(r, i),
     width |-> IF Edge(r, i + 1) > n_bins * left_line
               THEN n_bins * left_line - Edge(r, i)
               ELSE Edge(r, i + 1) - Edge(r, i)]

\* lines 130-138; in the else branch width is the bin's: the bin starts at or
\* after right_line, so line 123 has not changed it
HotBox(r, i) ==
    IF Edge(r, i) < n_bins * right_line
    THEN [kind |-> "hot", index |-> i, x |-> n_bins * right_line,
          width |-> Edge(r, i + 1) - n_bins * right_line]
    ELSE [kind |-> "hot", index |-> i, x |-> Edge(r, i),
          width |-> Edge(r, i + 1) - Edge(r, i)]

\* lines 106 and 118-140
Boxes(d) ==
    LET r == HistRange(d)
    IN  {ColdBox(r, i) : i \in {j \in 0..(n_bins - 1) : ColdTagged(r, j)}}
        \cup {HotBox(r, i) : i \in {j \in 0..(n_bins - 1) : HotTagged(r, j)}}

\* Boxes of every slice a frame can read, evaluated once
BoxesOf == [d \in {DropNaN(raw) : raw \in Grids} |-> Boxes(d)]

\* the cold count with <= for <
ColdPoints_inclusive(d) == Cardinality({i \in 1..Len(d) : d[i] <= left_line})

\* data[np.where(data < left_line)].shape[0]
ColdPoints(d) == Cardinality({i \in 1..Len(d) : d[i] < left_line})

\* data[np.where(data > right_line)].shape[0]
HotPoints(d) == Cardinality({i \in 1..Len(d) : d[i] > right_line})

\* the counter assigned (=) where the code adds (+=)
AddCold_reset(n, d) == ColdPoints(d)

\* line 158
AddCold(n, d) == n + ColdPoints(d)

\* line 159
AddHot(n, d) == n + HotPoints(d)

\* ---------------------------------- download_input with a statement changed
\* download_input without the os.path.isfile test: it always fetches
download_input_refetch(getOk, writeOk) ==
    IF ~getOk
    THEN [ret |-> None, get |-> "raised", write |-> "none",
          raised |-> FALSE, files |-> files]
    ELSE IF ~CanOpen(Format(savedir, fn_path)) \/ ~writeOk
    THEN [ret |-> None, get |-> "ok", write |-> "raised",
          raised |-> FALSE, files |-> files]
    ELSE [ret |-> fn_path, get |-> "ok", write |-> "ok",
          raised |-> FALSE,
          files |-> files \cup {Resolve(Format(savedir, fn_path))}]

\* download_input without the return None of line 44
download_input_noreturn(getOk, writeOk) ==
    IF ~isfile(fn_path)
    THEN IF ~getOk
         THEN [ret |-> None, get |-> "raised", write |-> "none",
               raised |-> FALSE, files |-> files]
         ELSE IF ~CanOpen(Format(savedir, fn_path)) \/ ~writeOk
         THEN [ret |-> fn_path, get |-> "ok", write |-> "raised",
               raised |-> FALSE, files |-> files]
         ELSE [ret |-> fn_path, get |-> "ok", write |-> "ok",
               raised |-> FALSE,
               files |-> files \cup {Resolve(Format(savedir, fn_path))}]
    ELSE [ret |-> fn_path, get |-> "none", write |-> "none",
          raised |-> FALSE, files |-> files]

\* ---------------------------------------------------------- download_input
\* What one call does to the cache directory and what it returns.  getOk: the
\* GET returns a response; writeOk: no write of the body raises.
download_input(getOk, writeOk) ==
    IF ~isfile(fn_path)
    THEN IF ~getOk
         THEN [ret |-> None, get |-> "raised", write |-> "none",
               raised |-> FALSE, files |-> files]
         ELSE LET target == Format(savedir, fn_path)
              IN  IF ~CanOpen(target)
                  THEN [ret |-> None, get |-> "ok", write |-> "raised",
                        raised |-> FALSE, files |-> files]
                  ELSE IF ~writeOk
                  THEN [ret |-> None, get |-> "ok", write |-> "raised",
                        raised |-> FALSE,
                        files |-> files \cup {Resolve(target)}]
                  ELSE [ret |-> fn_path, get |-> "ok", write |-> "ok",
                        raised |-> FALSE,
                        files |-> files \cup {Resolve(target)}]
    ELSE [ret |-> fn_path, get |-> "none", write |-> "none",
          raised |-> FALSE, files |-> files]

\* the call made and logged; an exception leaving it would end the run
Call(getOk, writeOk, next) ==
    LET r == download_input(getOk, writeOk)
    IN  /\ files' = r.files
        /\ requests' = requests + (IF r.get = "none" THEN 0 ELSE 1)
        /\ calls' = Append(calls, [hit |-> isfile(fn_path), get |-> r.get,
                                   write |-> r.write, ret |-> r.ret,
                                   raised |-> r.raised,
                                   before |-> files, after |-> r.files])
        /\ fn' = r.ret
        /\ pc' = IF r.raised THEN "crashed" ELSE next
        /\ fault' = IF r.raised THEN "download_input" ELSE fault

\* a __main__ that stops on None
AfterMain_checked(ret) == IF ret = None THEN "done" ELSE "make_plots"

\* where __main__ goes with download_input's result
AfterMain(ret) == "make_plots"

\* ------------------------------------------------------------------ inputs
DATA == <<"data">>

CACHED == Resolve(fn_path)

CacheStates ==
    {[dirs |-> {}, files |-> {}],
     [dirs |-> {DATA}, files |-> {}],
     [dirs |-> {DATA, DATA \o DATA}, files |-> {}],
     [dirs |-> {DATA}, files |-> {CACHED}]}

\* ./pngs as earlier runs leave it
PngStates ==
    {[exists |-> FALSE, files |-> {}],
     [exists |-> TRUE, files |-> {out_name(0)}],
     [exists |-> TRUE, files |-> {out_name(0), out_name(99)}]}

\* make_plots takes any start / end; __main__ passes '196901' and 'end' for a
\* dataset of some 2000 months, here the tokens lie around the first months
\* of a dataset of at most MaxTime months.  GISS_histograms takes no tokens:
\* its loop is the whole time dimension ('start' to 'end').
StartTokens == {START, ENDTOK, MkToken(1849, 11), MkToken(1849, 12),
                MkToken(1850, 1), MkToken(1850, 2)}

EndTokens == {ENDTOK, START, MkToken(1849, 12), MkToken(1850, 1),
              MkToken(1850, 2), MkToken(1850, 3)}

\* the state of a run before its first statement
Fresh ==
    /\ pc = "main"
    /\ fault = "none"
    /\ requests = 0
    /\ calls = <<>>
    /\ fn = None
    /\ num_cold_points = 0
    /\ num_hot_points = 0
    /\ start_idx = 0
    /\ end_idx = 0
    /\ t = 0
    /\ data = <<>>
    /\ patches = {}
    /\ frames = <<>>
    /\ gif_invoked = FALSE
    /\ gif_input = {}

Init ==
    /\ variant \in {"temperature", "GISS"}
    /\ \E c \in CacheStates : dirs = c.dirs /\ files = c.files
    /\ \E p \in PngStates : pngs_exists = p.exists /\ pngs = p.files
    /\ ds_size \in 1..MaxTime
    /\ IF variant = "temperature"
       THEN start \in StartTokens /\ end \in EndTokens
       ELSE start = START /\ end = ENDTOK
    /\ Fresh

\* ----------------------------------------------------------------- actions
\* __main__: fn = download_input(), then make_plots(fn, ...)
Main ==
    /\ pc = "main"
    /\ \E getOk \in BOOLEAN, writeOk \in BOOLEAN :
          Call(getOk, writeOk, AfterMain(download_input(getOk, writeOk).ret))
    /\ UNCHANGED <<variant, start, end, ds_size, dirs, pngs_exists, pngs,
                   num_cold_points, num_hot_points, start_idx, end_idx, t,
                   data, patches, frames, gif_invoked, gif_input>>

\* temperature_histograms make_plots, lines 66-73
T_prepare ==
    /\ pc = "make_plots"
    /\ variant = "temperature"
    /\ pngs_exists' = TRUE
    /\ pngs' = {}
    /\ num_cold_points' = 0
    /\ num_hot_points' = 0
    /\ pc' = "open_dataset"
    /\ UNCHANGED <<variant, fault, start, end, ds_size, dirs, files, requests,
                   calls, fn, start_idx, end_idx, t, data, patches, frames,
                   gif_invoked, gif_input>>

\* GISS_histograms make_plots, lines 59-60
G_prepare ==
    /\ pc = "make_plots"
    /\ variant = "GISS"
    /\ pngs_exists' = TRUE
    /\ pc' = "download_input"
    /\ UNCHANGED <<variant, fault, start, end, ds_size, dirs, files, requests,
                   calls, fn, pngs, num_cold_points, num_hot_points, start_idx,
                   end_idx, t, data, patches, frames, gif_invoked, gif_input>>

\* GISS_histograms make_plots, line 64: fn = download_input()
G_download ==
    /\ pc = "download_input"
    /\ \E getOk \in BOOLEAN, writeOk \in BOOLEAN :
          Call(getOk, writeOk, "open_dataset")
    /\ UNCHANGED <<variant, start, end, ds_size, dirs, pngs_exists, pngs,
                   num_cold_points, num_hot_points, start_idx, end_idx, t,
                   data, patches, frames, gif_invoked, gif_input>>

\* xr.open_dataset(fn) raises on None and on a path that names no file
OpenFails(path) == path = None \/ ~isfile(path)

\* ds = xr.open_dataset(fn); GISS then loops over range(ds['time'].shape[0])
open_dataset ==
    /\ pc = "open_dataset"
    /\ IF OpenFails(fn)
       THEN /\ pc' = "crashed"
            /\ fault' = "open_dataset"
            /\ UNCHANGED <<start_idx, end_idx, t>>
       ELSE IF variant = "temperature"
       THEN /\ pc' = "resolve"
            /\ UNCHANGED <<fault, start_idx, end_idx, t>>
       ELSE /\ pc' = "loop"
            /\ start_idx' = 0
            /\ end_idx' = ds_size
            /\ t' = 0
            /\ UNCHANGED fault
    /\ UNCHANGED <<variant, start, end, ds_size, dirs, files, requests, calls,
                   fn, pngs_exists, pngs, num_cold_points, num_hot_points,
                   data, patches, frames, gif_invoked, gif_input>>

\* temperature_histograms make_plots, lines 77-91
T_resolve ==
    /\ pc = "resolve"
    /\ LET s == StartDate(start)
           e == EndDate(end, ds_size)
       IN  IF ~s.ok \/ ~e.ok
           THEN /\ pc' = "crashed"
                /\ fault' = IF ~s.ok THEN "strptime(start)" ELSE "strptime(end)"
                /\ UNCHANGED <<start_idx, end_idx, t>>
           ELSE /\ start_idx' = MonthIndex(s)
                /\ end_idx' = MonthIndex(e)
                /\ t' = MonthIndex(s)
                /\ pc' = "loop"
                /\ UNCHANGED fault
    /\ UNCHANGED <<variant, start, end, ds_size, dirs, files, requests, calls,
                   fn, pngs_exists, pngs, num_cold_points, num_hot_points,
                   data, patches, frames, gif_invoked, gif_input>>

\* plt.savefig('{}/{}'.format(out_dir, out_name)) and the loop's next t
SaveFrame ==
    /\ pngs' = pngs \cup {out_name(t)}
    /\ frames' = Append(frames, [t |-> t, name |-> out_name(t)])
    /\ t' = t + 1
    /\ UNCHANGED <<pc, fault>>

\* temperature_histograms make_plots, lines 93-191: one frame.  The slice is
\* drawn when the frame reads it (the dataset is read nowhere else); an empty
\* slice after DropNaN stops the run at the division of line 160.
T_frame ==
    /\ pc = "loop"
    /\ variant = "temperature"
    /\ InRange(t, end_idx)
    /\ IF ~ValidIndex(t, ds_size)
       THEN /\ pc' = "crashed"
            /\ fault' = "IndexError"
            /\ UNCHANGED <<pngs, num_cold_points, num_hot_points, t, data,
                           patches, frames>>
       ELSE \E raw \in Grids :
            /\ data' = DropNaN(raw)
            /\ patches' = BoxesOf[data']
            /\ num_cold_points' = AddCold(num_cold_points, data')
            /\ num_hot_points' = AddHot(num_hot_points, data')
            /\ IF Len(data') = 0
               THEN \* line 160 divides by data.shape[0]
                    /\ pc' = "crashed"
                    /\ fault' = "ZeroDivisionError"
                    /\ UNCHANGED <<pngs, t, frames>>
               ELSE SaveFrame
    /\ UNCHANGED <<variant, start, end, ds_size, dirs, files, requests, calls,
                   fn, pngs_exists, start_idx, end_idx, gif_invoked,
                   gif_input>>

\* GISS_histograms make_plots, lines 70-95: one frame
G_frame ==
    /\ pc = "loop"
    /\ variant = "GISS"
    /\ InRange(t, end_idx)
    /\ IF ~ValidIndex(t, ds_size)
       THEN /\ pc' = "crashed"
            /\ fault' = "IndexError"
            /\ UNCHANGED <<pngs, t, data, frames>>
       ELSE \E raw \in Grids :
            /\ data' = DropNaN(raw)
            /\ SaveFrame
    /\ UNCHANGED <<variant, start, end, ds_size, dirs, files, requests, calls,
                   fn, pngs_exists, num_cold_points, num_hot_points, start_idx,
                   end_idx, patches, gif_invoked, gif_input>>

\* the range is used up; the convert command runs over out_dir's *png
Animate ==
    /\ pc = "loop"
    /\ ~InRange(t, end_idx)
    /\ IF variant = "GISS" \/ animated_gif # <<>>
       THEN gif_invoked' = TRUE /\ gif_input' = Glob(pngs)
       ELSE UNCHANGED <<gif_invoked, gif_input>>
    /\ pc' = "done"
    /\ UNCHANGED <<variant, fault, start, end, ds_size, dirs, files, requests,
                   calls, fn, pngs_exists, pngs, num_cold_points,
                   num_hot_points, start_idx, end_idx, t, data, patches,
                   frames>>

Next ==
    \/ Main
    \/ T_prepare
    \/ G_prepare
    \/ G_download
    \/ open_dataset
    \/ T_resolve
    \/ T_frame
    \/ G_frame
    \/ Animate

Spec == Init /\ [][Next]_vars

\* ------------------------------------------------ date resolution alone
\* make_plots at line 77 of temperature_histograms: the cached dataset is
\* open, ./pngs is empty, and the tokens range over every month of the years
\* around 1850, the sentinels, a one-digit month and a month 13
ResolveTokens ==
    {START, ENDTOK, <<"1", "8", "5", "0", "1">>, <<"1", "8", "5", "0", "1", "3">>}
    \cup {MkToken(y, m) : y \in (1850 - YearSpan)..(1850 + YearSpan), m \in 1..12}

InitResolve ==
    /\ variant = "temperature"
    /\ pc = "resolve"
    /\ fault = "none"
    /\ start \in ResolveTokens
    /\ end \in ResolveTokens
    /\ ds_size \in 1..MaxTime
    /\ dirs = {DATA}
    /\ files = {CACHED}
    /\ requests = 0
    /\ calls = <<[hit |-> TRUE, get |-> "none", write |-> "none",
                 ret |-> fn_path, raised |-> FALSE,
                 before |-> {CACHED}, after |-> {CACHED}]>>
    /\ fn = fn_path
    /\ pngs_exists = TRUE
    /\ pngs = {}
    /\ num_cold_points = 0
    /\ num_hot_points = 0
    /\ start_idx = 0
    /\ end_idx = 0
    /\ t = 0
    /\ data = <<>>
    /\ patches = {}
    /\ frames = <<>>
    /\ gif_invoked = FALSE
    /\ gif_input = {}

NextResolve == T_resolve

SpecResolve == InitResolve /\ [][NextResolve]_vars

\* ------------------------------------------------------------------ claims
FrameNames == {frames[i].name : i \in 1..Len(frames)}

\* a step of the temperature script that saves a frame
FrameSaved == variant = "temperature" /\ pc = "loop" /\ t' = t + 1

\* C1: from a cache directory without the dataset file, two calls of
\* download_input in a row, the first one's GET and write succeeding, make one
\* request in all: the second call makes none and returns the first's path.
C1_FetchIdempotent ==
    (/\ Len(calls) = 2
     /\ ~calls[1].hit
     /\ calls[1].get = "ok"
     /\ calls[1].write = "ok")
    => /\ requests = 1
       /\ calls[2].get = "none"
       /\ calls[2].ret = calls[1].ret

\* C2: a call that finds the file named after the URL's basename under ./data
\* returns its path, makes no request and leaves the file system as it was.
C2_CacheHit ==
    \A i \in 1..Len(calls) :
        calls[i].hit =>
            /\ calls[i].ret = fn_path
            /\ calls[i].get = "none"
            /\ calls[i].write = "none"
            /\ calls[i].after = calls[i].before
            /\ ~calls[i].raised

C2_Witness == \E i \in 1..Len(calls) : calls[i].hit /\ calls[i].ret = fn_path

\* C3: on a cache miss a GET or a write that raises makes download_input
\* return None, and nothing leaves it as an exception; it returns a path only
\* on a cache hit or when the GET and the whole write succeeded.
C3_FailureIsNone ==
    \A i \in 1..Len(calls) :
        /\ ~calls[i].raised
        /\ calls[i].ret \in {None, fn_path}
        /\ calls[i].ret # None =>
              calls[i].hit \/ (calls[i].get = "ok" /\ calls[i].write = "ok")
        /\ (~calls[i].hit /\ (calls[i].get = "raised" \/ calls[i].write = "raised"))
              => calls[i].ret = None

C3_Witness ==
    /\ \E i \in 1..Len(calls) : calls[i].write = "raised" /\ calls[i].ret = None
    /\ \E i \in 1..Len(calls) : calls[i].get = "raised" /\ calls[i].ret = None

MonthTokens ==
    {MkToken(y, m) : y \in (1850 - YearSpan)..(1850 + YearSpan), m \in 1..12}

\* C4: a token YYYYMM, as start or as end, resolves to the index
\* 12*(year - 1850) + (month - 1), negative before 1850; two such tokens
\* always resolve, and start 185001 with end 185002 gives (0, 1).
C4_DateIndex ==
    pc # "resolve" =>
        /\ \A y \in (1850 - YearSpan)..(1850 + YearSpan), m \in 1..12 :
              /\ (start = MkToken(y, m) /\ pc = "loop")
                    => start_idx = 12 * (y - 1850) + (m - 1)
              /\ (end = MkToken(y, m) /\ pc = "loop")
                    => end_idx = 12 * (y - 1850) + (m - 1)
        /\ (start \in MonthTokens /\ end \in MonthTokens) => pc = "loop"
        /\ (start = MkToken(1850, 1) /\ end = MkToken(1850, 2))
              => (pc = "loop" /\ start_idx = 0 /\ end_idx = 1)

C4_Witness ==
    /\ pc = "loop"
    /\ start = MkToken(1850 - YearSpan, 1)
    /\ start_idx = -12 * YearSpan
    /\ end = MkToken(1849, 6)
    /\ end_idx = -7

\* the run has left the date resolution of the temperature script
PastResolve ==
    /\ variant = "temperature"
    /\ pc \in {"loop", "done", "crashed"}
    /\ fault # "open_dataset"

\* C5 as claimed: start token 'end' with end token 'start' resolves to an
\* inverted or empty range, and the loop saves no frame.
C5_ReversedInverted ==
    (start = ENDTOK /\ end = START /\ PastResolve)
    => (pc \in {"loop", "done"} /\ start_idx >= end_idx /\ frames = <<>>)

\* C5 as amended: start token 'end' with end token 'start' is no range at
\* all: strptime raises on the start token, the run ends there, no frame is
\* saved and convert is never run.
C5_ReversedRaises ==
    (start = ENDTOK /\ end = START /\ PastResolve)
    => /\ pc = "crashed"
       /\ fault = "strptime(start)"
       /\ frames = <<>>
       /\ ~gif_invoked

C5_Witness ==
    /\ start = ENDTOK
    /\ end = START
    /\ pc = "crashed"
    /\ fault = "strptime(start)"

C7_NoStaleFrames ==
    gif_invoked => (gif_input \subseteq FrameNames /\ pngs \subseteq FrameNames)

\* the bins that have a box of the kind among the boxes p
BoxedBins(p, kind) == {b.index : b \in {c \in p : c.kind = kind}}

\* C8 as claimed: a value equal to a threshold counts as an event, and a bin
\* with an edge on a threshold gets the box of that threshold's region.
C8_BoundaryInclusive ==
    /\ [](variant = "temperature" =>
            LET r == HistRange(data)
            IN  /\ {i \in 0..(n_bins - 1) :
                        n_bins * left_line \in {Edge(r, i), Edge(r, i + 1)}}
                      \subseteq BoxedBins(patches, "cold")
                /\ {i \in 0..(n_bins - 1) :
                        n_bins * right_line \in {Edge(r, i), Edge(r, i + 1)}}
                      \subseteq BoxedBins(patches, "hot"))
    /\ [][FrameSaved =>
            /\ num_cold_points' - num_cold_points
                  = Cardinality({i \in 1..Len(data') : data'[i] <= left_line})
            /\ num_hot_points' - num_hot_points
                  = Cardinality({i \in 1..Len(data') : data'[i] >= right_line})]_vars

\* C8 as amended: the counters are boundary exclusive (cold counts the values
\* below -2.5, hot those above 2.5; a value equal to a threshold is in
\* neither).  A bin gets a cold box exactly when it starts below -2.5, the
\* box ending at -2.5 at the latest, so a bin starting at -2.5 gets none; a
\* bin gets a hot box exactly when it ends at 2.5 or above, the box starting
\* at 2.5 at the earliest, so a bin ending at 2.5 gets a box of width 0.
C8_BoundaryStrict ==
    /\ [](variant = "temperature" =>
            LET r == HistRange(data)
            IN  /\ \A b \in patches :
                      /\ b.kind = "cold" =>
                            /\ b.x = Edge(r, b.index)
                            /\ b.width > 0
                            /\ b.x + b.width <= n_bins * left_line
                            /\ b.x + b.width <= Edge(r, b.index + 1)
                      /\ b.kind = "hot" =>
                            /\ b.x >= n_bins * right_line
                            /\ b.x >= Edge(r, b.index)
                            /\ b.width >= 0
                            /\ b.x + b.width = Edge(r, b.index + 1)
                /\ BoxedBins(patches, "cold")
                      = {i \in 0..(n_bins - 1) : Edge(r, i) < n_bins * left_line}
                /\ BoxedBins(patches, "hot")
                      = {i \in 0..(n_bins - 1) :
                            Edge(r, i + 1) >= n_bins * right_line})
    /\ [][FrameSaved =>
            /\ num_cold_points' - num_cold_points
                  = Cardinality({i \in 1..Len(data') : data'[i] < left_line})
            /\ num_hot_points' - num_hot_points
                  = Cardinality({i \in 1..Len(data') : data'[i] > right_line})]_vars

C8_Witness ==
    /\ variant = "temperature"
    /\ Len(frames) = 1
    /\ data = <<left_line>>
    /\ num_cold_points = 0
    /\ \E i \in 0..(n_bins - 1) : Edge(HistRange(data), i) = n_bins * left_line

\* C9: the counters are 0 when the loop starts, frames are taken in strictly
\* increasing index, and no step lowers a counter.
C9_Monotone ==
    /\ []((pc \in {"open_dataset", "resolve"} \/ (pc = "loop" /\ t = start_idx))
            => (num_cold_points = 0 /\ num_hot_points = 0))
    /\ [][/\ num_cold_points' >= num_cold_points
          /\ num_hot_points' >= num_hot_points
          /\ frames' # frames =>
                /\ Len(frames') = Len(frames) + 1
                /\ \A i \in 1..Len(frames) :
                      frames[i].t < frames'[Len(frames')].t]_vars

C9_Witness ==
    /\ variant = "temperature"
    /\ Len(frames) >= 2
    /\ num_cold_points >= 1
    /\ num_hot_points >= 1

\* C10: when the download_input() of __main__ returns None, make_plots is
\* called all the same and the run can only end in the failure of
\* xr.open_dataset; it saves no frame and never runs convert.
C10_UncheckedNone ==
    (Len(calls) >= 1 /\ calls[1].ret = None) =>
        /\ pc \in {"make_plots", "download_input", "open_dataset", "crashed"}
        /\ pc = "crashed" => fault = "open_dataset"
        /\ frames = <<>>
        /\ ~gif_invoked

C10_Witness ==
    /\ calls # <<>>
    /\ calls[1].ret = None
    /\ pc = "crashed"
    /\ fault = "open_dataset"

====
